---- MODULE Spec2Model ----
(***************************************************************************)
(* Model of the checklist / reminder engine of cdfa-project-manager        *)
(* (src/utils/reminderScheduler.ts) and of the application store that      *)
(* drives it (src/context/ActivityContext.tsx).                            *)
(*                                                                         *)
(* Calendar date strings 'yyyy-MM-dd' are modelled as tuples <<y, m, d>>,  *)
(* the empty string as <<>>.  A JavaScript Date is modelled as a record    *)
(* [valid, day]: day is the number of days since 1970-01-01 of a local     *)
(* midnight, valid = FALSE is the Invalid Date.                            *)
(***************************************************************************)
EXTENDS Integers, Sequences, FiniteSets, TLC

\* ------------------------------------------------------------------------
\* Bounds of the model
\* ------------------------------------------------------------------------

\* number of days the wall clock may advance past FirstDay
MaxDays == 1

\* number of library calls made by the function harness
MaxSteps == 3

\* number of store operations performed
MaxOps == 3

\* ------------------------------------------------------------------------
\* date-fns: parseISO, format, addDays, isBefore, differenceInDays
\* ------------------------------------------------------------------------

IsLeapYear(y) == (y % 4 = 0 /\ y % 100 # 0) \/ y % 400 = 0

DaysInMonth(y, m) ==
  IF m = 2 THEN (IF IsLeapYear(y) THEN 29 ELSE 28)
  ELSE IF m \in {4, 6, 9, 11} THEN 30 ELSE 31

\* days since 1970-01-01 of the civil date y-m-d (proleptic Gregorian)
DaysFromCivil(y, m, d) ==
  LET yy  == IF m <= 2 THEN y - 1 ELSE y
      era == yy \div 400
      yoe == yy - era * 400
      mp  == IF m > 2 THEN m - 3 ELSE m + 9
      doy == (153 * mp + 2) \div 5 + d - 1
      doe == yoe * 365 + yoe \div 4 - yoe \div 100 + doy
  IN  era * 146097 + doe - 719468

\* civil date <<y, m, d>> of a day number
CivilFromDays(z) ==
  LET zz  == z + 719468
      era == zz \div 146097
      doe == zz - era * 146097
      yoe == (doe - doe \div 1460 + doe \div 36524 - doe \div 146096) \div 365
      doy == doe - (365 * yoe + yoe \div 4 - yoe \div 100)
      mp  == (5 * doy + 2) \div 153
      d   == doy - (153 * mp + 2) \div 5 + 1
      m   == IF mp < 10 THEN mp + 3 ELSE mp - 9
      y   == yoe + era * 400 + (IF m <= 2 THEN 1 ELSE 0)
  IN  <<y, m, d>>

InvalidDate == [valid |-> FALSE, day |-> 0]

\* parseISO: an empty string or an impossible calendar date gives Invalid Date
parseISO(s) ==
  IF Len(s) = 3 /\ s[2] \in 1..12 /\ s[3] >= 1 /\ s[3] <= DaysInMonth(s[1], s[2])
  THEN [valid |-> TRUE, day |-> DaysFromCivil(s[1], s[2], s[3])]
  ELSE InvalidDate

\* addDays keeps an Invalid Date invalid
addDays(date, n) ==
  IF date.valid THEN [valid |-> TRUE, day |-> date.day + n] ELSE InvalidDate

\* format(date, 'yyyy-MM-dd'); throws RangeError on an Invalid Date, which
\* the callers model through the ok flag of their result
format(date) == CivilFromDays(date.day)

\* isBefore is false whenever one side is an Invalid Date (NaN comparison)
isBefore(a, b) == a.valid /\ b.valid /\ a.day < b.day

isAfter(a, b) == a.valid /\ b.valid /\ a.day > b.day

\* the model's dates are local midnights, so the same day is the same instant
isSameDay(a, b) == a.valid /\ b.valid /\ a.day = b.day

differenceInDays(a, b) == a.day - b.day

\* ------------------------------------------------------------------------
\* Sequence helpers
\* ------------------------------------------------------------------------

RECURSIVE Concat(_)
Concat(ss) == IF ss = <<>> THEN <<>> ELSE Head(ss) \o Concat(Tail(ss))

SetMax(S) == CHOOSE x \in S : \A y \in S : y <= x

\* object spread { ...base, ...updates }
Spread(base, updates) ==
  [f \in DOMAIN base \cup DOMAIN updates |->
     IF f \in DOMAIN updates THEN updates[f] ELSE base[f]]

\* ------------------------------------------------------------------------
\* Procedure templates (inputs of the engine)
\* ------------------------------------------------------------------------

Task(id, title, order, dueOffset, reminderOffsets) ==
  [id |-> id, title |-> title, order |-> order, dueOffset |-> dueOffset,
   reminderOffsets |-> reminderOffsets]

Phase(id, order, tasks) == [id |-> id, order |-> order, tasks |-> tasks]

TplShow ==
  [id |-> "trade-show-template", eventType |-> "trade_show",
   phases |-> << Phase("p1", 1, << Task("a", "Ship samples", 1, 1, <<2, 0>>),
                                   Task("b", "Book booth", 2, -2, <<1>>) >>),
                 Phase("p2", 2, <<>>) >>]

\* a later version of the trade show template: task a moved, task b
\* removed, task d added; its phases are not listed by their order field
TplShowV2 ==
  [id |-> "trade-show-template", eventType |-> "trade_show",
   phases |-> << Phase("p1", 2, << Task("a", "Ship samples", 1, 8, <<2>>) >>),
                 Phase("p2", 1, << Task("d", "Send report", 1, 0, <<>>) >>) >>]

TplWebinar ==
  [id |-> "webinar-template", eventType |-> "webinar",
   phases |-> << Phase("w1", 1, << Task("w", "Send invitations", 1, -1, <<1>>) >>) >>]

TplEmpty == [id |-> "empty-template", eventType |-> "none", phases |-> <<>>]

Templates == {TplShow, TplShowV2, TplWebinar, TplEmpty}

\* the tasks of a template in phase order, then task order, each with the
\* id of its phase (the nested for loops over template.phases / phase.tasks)
FlatTasks(template) ==
  Concat([p \in 1..Len(template.phases) |->
            [k \in 1..Len(template.phases[p].tasks) |->
               [phaseId |-> template.phases[p].id,
                task    |-> template.phases[p].tasks[k]]]])

\* ------------------------------------------------------------------------
\* reminderScheduler.ts
\* ------------------------------------------------------------------------

NoChecklist ==
  [id |-> 0, activityId |-> 0, procedureTemplateId |-> "", items |-> <<>>,
   completedCount |-> 0, totalCount |-> 0, overdueCount |-> 0,
   createdAt |-> 0, updatedAt |-> 0]

\* task.reminderOffsets.map(offset => format(addDays(dueDate, -offset)))
ReminderDatesAfterDue(task, dueDate) ==
  [j \in 1..Len(task.reminderOffsets) |->
     format(addDays(dueDate, task.reminderOffsets[j]))]

ReminderDatesOf(task, dueDate) ==
  [j \in 1..Len(task.reminderOffsets) |->
     format(addDays(dueDate, -task.reminderOffsets[j]))]

GeneratedItemsByDueDate(activity, template, idBase) ==
  LET tasks         == FlatTasks(template)
      rank(i)       == Cardinality({j \in 1..Len(tasks) :
                          \/ tasks[j].task.dueOffset < tasks[i].task.dueOffset
                          \/ /\ tasks[j].task.dueOffset = tasks[i].task.dueOffset
                             /\ j <= i})
      flat          == [r \in 1..Len(tasks) |->
                          tasks[CHOOSE i \in 1..Len(tasks) : rank(i) = r]]
      activityStart == parseISO(activity.startDate)
  IN  [i \in 1..Len(flat) |->
         LET task    == flat[i].task
             dueDate == addDays(activityStart, task.dueOffset)
         IN  [id            |-> idBase + i,
              taskId        |-> task.id,
              phaseId       |-> flat[i].phaseId,
              title         |-> task.title,
              status        |-> "not_started",
              dueDate       |-> format(dueDate),
              reminderDates |-> ReminderDatesOf(task, dueDate),
              notes         |-> <<>>,
              attachments   |-> <<>>]]

\* the items pushed by the loops of generateChecklistFromTemplate; uuidv4()
\* is modelled by fresh numbers above idBase
GeneratedItems(activity, template, idBase) ==
  LET flat          == FlatTasks(template)
      activityStart == parseISO(activity.startDate)
  IN  [i \in 1..Len(flat) |->
         LET task    == flat[i].task
             dueDate == addDays(activityStart, task.dueOffset)
         IN  [id            |-> idBase + i,
              taskId        |-> task.id,
              phaseId       |-> flat[i].phaseId,
              title         |-> task.title,
              status        |-> "not_started",
              dueDate       |-> format(dueDate),
              reminderDates |-> ReminderDatesOf(task, dueDate),
              notes         |-> <<>>,
              attachments   |-> <<>>]]

\* format throws RangeError on an Invalid Date: generation fails when the
\* start date does not parse and the template has a task
GenerateThrows(activity, template) ==
  Len(FlatTasks(template)) > 0 /\ ~parseISO(activity.startDate).valid

generateZeroTotal(activity, template, idBase, now) ==
  IF GenerateThrows(activity, template)
  THEN [ok |-> FALSE, value |-> NoChecklist]
  ELSE LET items == GeneratedItems(activity, template, idBase)
       IN  [ok |-> TRUE,
            value |-> [id                  |-> idBase + Len(items) + 1,
                       activityId          |-> activity.id,
                       procedureTemplateId |-> template.id,
                       items               |-> items,
                       completedCount      |-> 0,
                       totalCount          |-> 0,
                       overdueCount        |-> 0,
                       createdAt           |-> now,
                       updatedAt           |-> now]]

generateWithRollup(activity, template, idBase, now) ==
  IF GenerateThrows(activity, template)
  THEN [ok |-> FALSE, value |-> NoChecklist]
  ELSE LET items == GeneratedItems(activity, template, idBase)
       IN  [ok |-> TRUE,
            value |-> [id                  |-> idBase + Len(items) + 1,
                       activityId          |-> activity.id,
                       procedureTemplateId |-> template.id,
                       items               |-> items,
                       completedCount      |-> 0,
                       totalCount          |-> Len(items),
                       overdueCount        |->
                         Cardinality({i \in 1..Len(items) :
                            isBefore(parseISO(items[i].dueDate),
                                     [valid |-> TRUE, day |-> now])}),
                       createdAt           |-> now,
                       updatedAt           |-> now]]

\* now is the time stamp new Date().toISOString(), at day granularity.
\* ok = FALSE: an exception left the function and nothing was returned.
generateChecklistFromTemplate(activity, template, idBase, now) ==
  IF GenerateThrows(activity, template)
  THEN [ok |-> FALSE, value |-> NoChecklist]
  ELSE LET items == GeneratedItems(activity, template, idBase)
       IN  [ok |-> TRUE,
            value |-> [id                  |-> idBase + Len(items) + 1,
                       activityId          |-> activity.id,
                       procedureTemplateId |-> template.id,
                       items               |-> items,
                       completedCount      |-> 0,
                       totalCount          |-> Len(items),
                       overdueCount        |-> 0,
                       createdAt           |-> now,
                       updatedAt           |-> now]]

\* taskMap of recalculateChecklistDates over the flattened tasks:
\* taskMap.has(id) and taskMap.get(id), where a later task with the same id
\* overwrites an earlier one
TaskMapHas(flat, taskId) ==
  \E i \in 1..Len(flat) : flat[i].task.id = taskId

TaskMapGet(flat, taskId) ==
  flat[SetMax({i \in 1..Len(flat) : flat[i].task.id = taskId})].task

RecalculatedItemReset(item, flat, activityStart) ==
  IF ~TaskMapHas(flat, item.taskId) THEN item
  ELSE LET task    == TaskMapGet(flat, item.taskId)
           dueDate == addDays(activityStart, task.dueOffset)
       IN  [id            |-> item.id,
            taskId        |-> item.taskId,
            phaseId       |-> item.phaseId,
            title         |-> task.title,
            status        |-> "not_started",
            dueDate       |-> format(dueDate),
            reminderDates |-> ReminderDatesOf(task, dueDate),
            notes         |-> <<>>,
            attachments   |-> <<>>]

RecalculatedItemDueOnly(item, flat, activityStart) ==
  IF ~TaskMapHas(flat, item.taskId) THEN item
  ELSE LET task    == TaskMapGet(flat, item.taskId)
           dueDate == addDays(activityStart, task.dueOffset)
       IN  [item EXCEPT !.dueDate = format(dueDate)]

RecalculatedItemFromCurrentDue(item, flat, activityStart) ==
  IF ~TaskMapHas(flat, item.taskId) THEN item
  ELSE LET task    == TaskMapGet(flat, item.taskId)
           dueDate == IF activityStart.valid
                      THEN addDays(parseISO(item.dueDate), task.dueOffset)
                      ELSE InvalidDate
       IN  [item EXCEPT !.dueDate       = format(dueDate),
                        !.reminderDates = ReminderDatesOf(task, dueDate)]

\* the callback of checklist.items.map in recalculateChecklistDates
RecalculatedItem(item, flat, activityStart) ==
  IF ~TaskMapHas(flat, item.taskId) THEN item
  ELSE LET task    == TaskMapGet(flat, item.taskId)
           dueDate == addDays(activityStart, task.dueOffset)
       IN  [item EXCEPT !.dueDate       = format(dueDate),
                        !.reminderDates = ReminderDatesOf(task, dueDate)]

\* recalculation throws when an item is found in the template and the start
\* date does not parse
RecalculateThrows(checklist, activity, template) ==
  /\ ~parseISO(activity.startDate).valid
  /\ \E i \in 1..Len(checklist.items) :
        TaskMapHas(FlatTasks(template), checklist.items[i].taskId)

recalculateDroppingUnknown(checklist, activity, template, now) ==
  IF RecalculateThrows(checklist, activity, template)
  THEN [ok |-> FALSE, value |-> NoChecklist]
  ELSE LET flat  == FlatTasks(template)
           known == SelectSeq(checklist.items,
                              LAMBDA item : TaskMapHas(flat, item.taskId))
           updatedItems ==
             [i \in 1..Len(known) |->
                RecalculatedItem(known[i], flat, parseISO(activity.startDate))]
       IN  [ok |-> TRUE,
            value |-> [checklist EXCEPT !.items = updatedItems,
                                        !.updatedAt = now]]

recalculateWithRollup(checklist, activity, template, now) ==
  IF RecalculateThrows(checklist, activity, template)
  THEN [ok |-> FALSE, value |-> NoChecklist]
  ELSE LET flat == FlatTasks(template)
           updatedItems ==
             [i \in 1..Len(checklist.items) |->
                RecalculatedItem(checklist.items[i], flat,
                                 parseISO(activity.startDate))]
       IN  [ok |-> TRUE,
            value |-> [checklist EXCEPT
                         !.items = updatedItems,
                         !.overdueCount =
                           Cardinality({i \in 1..Len(updatedItems) :
                              isBefore(parseISO(updatedItems[i].dueDate),
                                       [valid |-> TRUE, day |-> now])}),
                         !.updatedAt = now]]

recalculateChecklistDates(checklist, activity, template, now) ==
  IF RecalculateThrows(checklist, activity, template)
  THEN [ok |-> FALSE, value |-> NoChecklist]
  ELSE LET flat == FlatTasks(template)
           updatedItems ==
             [i \in 1..Len(checklist.items) |->
                RecalculatedItem(checklist.items[i], flat,
                                 parseISO(activity.startDate))]
       IN  [ok |-> TRUE,
            value |-> [checklist EXCEPT !.items = updatedItems,
                                        !.updatedAt = now]]

IsDone(item) == item.status = "completed" \/ item.status = "skipped"

updateCountsDueTodayOverdue(checklist, today, now) ==
  LET todayDate == [valid |-> TRUE, day |-> today + 1]
      idx       == 1..Len(checklist.items)
      completedCount == Cardinality({i \in idx : IsDone(checklist.items[i])})
      overdueCount ==
        Cardinality({i \in idx :
                       /\ ~IsDone(checklist.items[i])
                       /\ isBefore(parseISO(checklist.items[i].dueDate), todayDate)})
  IN  [checklist EXCEPT !.completedCount = completedCount,
                        !.overdueCount   = overdueCount,
                        !.updatedAt      = now]

\* today is the day number of startOfDay(new Date())
updateChecklistCounts(checklist, today, now) ==
  LET todayDate == [valid |-> TRUE, day |-> today]
      idx       == 1..Len(checklist.items)
      completedCount == Cardinality({i \in idx : IsDone(checklist.items[i])})
      overdueCount ==
        Cardinality({i \in idx :
                       /\ ~IsDone(checklist.items[i])
                       /\ isBefore(parseISO(checklist.items[i].dueDate), todayDate)})
  IN  [checklist EXCEPT !.completedCount = completedCount,
                        !.overdueCount   = overdueCount,
                        !.updatedAt      = now]

PatchWithoutRollup(checklist, itemId, updates, today, now) ==
  [checklist EXCEPT !.items =
     [i \in 1..Len(checklist.items) |->
        IF checklist.items[i].id = itemId
        THEN Spread(checklist.items[i], updates)
        ELSE checklist.items[i]]]

\* ActivityContext.updateChecklistItem, lines 871-878: patch one item and
\* roll the counts up
PatchChecklistItem(checklist, itemId, updates, today, now) ==
  LET updatedItems ==
        [i \in 1..Len(checklist.items) |->
           IF checklist.items[i].id = itemId
           THEN Spread(checklist.items[i], updates)
           ELSE checklist.items[i]]
  IN  updateChecklistCounts([checklist EXCEPT !.items = updatedItems],
                            today, now)

\* recipientIds: item.assigneeId ? [item.assigneeId] : []
RecipientsOf(item) ==
  IF "assigneeId" \in DOMAIN item /\ item.assigneeId # ""
  THEN <<item.assigneeId>> ELSE <<>>

\* the reminder object pushed when an item is overdue; the template literals
\* of id and message are modelled by the tuples of their parts
OverdueReminderOf(item, activity, todayDate, now) ==
  LET daysSince == differenceInDays(todayDate, parseISO(item.dueDate))
  IN  [id              |-> <<"overdue", item.id>>,
       type            |-> "task_overdue",
       activityId      |-> activity.id,
       checklistItemId |-> item.id,
       title           |-> "Task Overdue",
       message         |-> <<item.title, activity.name, "was due", daysSince,
                             IF daysSince # 1 THEN "days" ELSE "day", "ago">>,
       scheduledFor    |-> format(todayDate),
       isRead          |-> FALSE,
       isDismissed     |-> FALSE,
       recipientIds    |-> RecipientsOf(item),
       createdAt       |-> now]

\* the reminder object pushed for a reminder date that fires
UpcomingReminderOf(item, activity, reminderDateStr, todayDate, now) ==
  LET daysUntil == differenceInDays(parseISO(item.dueDate), todayDate)
  IN  [id              |-> <<"upcoming", item.id, reminderDateStr>>,
       type            |-> "task_due",
       activityId      |-> activity.id,
       checklistItemId |-> item.id,
       title           |-> "Task Due Soon",
       message         |-> <<item.title, activity.name, "is due in", daysUntil,
                             IF daysUntil # 1 THEN "days" ELSE "day", "">>,
       scheduledFor    |-> reminderDateStr,
       isRead          |-> FALSE,
       isDismissed     |-> FALSE,
       recipientIds    |-> RecipientsOf(item),
       createdAt       |-> now]

OverdueRemindersDueToday(item, activity, today, now) ==
  LET todayDate == [valid |-> TRUE, day |-> today]
  IN  IF ~isAfter(parseISO(item.dueDate), todayDate)
      THEN << OverdueReminderOf(item, activity, todayDate, now) >>
      ELSE <<>>

\* lines 135-151: the overdue check of one item
OverdueReminders(item, activity, today, now) ==
  LET todayDate == [valid |-> TRUE, day |-> today]
  IN  IF isBefore(parseISO(item.dueDate), todayDate)
      THEN << OverdueReminderOf(item, activity, todayDate, now) >>
      ELSE <<>>

UpcomingRemindersPastDates(item, activity, today, now) ==
  LET todayDate == [valid |-> TRUE, day |-> today]
  IN  Concat([j \in 1..Len(item.reminderDates) |->
                LET reminderDateStr == item.reminderDates[j]
                    reminderDate    == parseISO(reminderDateStr)
                IN  IF isBefore(reminderDate, addDays(todayDate, 1))
                    THEN << UpcomingReminderOf(item, activity, reminderDateStr,
                                               todayDate, now) >>
                    ELSE <<>>])

\* lines 153-172: the loop over the reminder dates of one item
UpcomingReminders(item, activity, today, now) ==
  LET todayDate == [valid |-> TRUE, day |-> today]
  IN  Concat([j \in 1..Len(item.reminderDates) |->
                LET reminderDateStr == item.reminderDates[j]
                    reminderDate    == parseISO(reminderDateStr)
                IN  IF \/ isSameDay(reminderDate, todayDate)
                       \/ (/\ isAfter(reminderDate, todayDate)
                           /\ isBefore(reminderDate, addDays(todayDate, 1)))
                    THEN << UpcomingReminderOf(item, activity, reminderDateStr,
                                               todayDate, now) >>
                    ELSE <<>>])

ItemRemindersOfDone(item, activity, today, now) ==
  OverdueReminders(item, activity, today, now)
    \o UpcomingReminders(item, activity, today, now)

\* the reminders generateReminders pushes for one item, in push order
ItemReminders(item, activity, today, now) ==
  IF IsDone(item) THEN <<>>
  ELSE OverdueReminders(item, activity, today, now)
         \o UpcomingReminders(item, activity, today, now)

generateRemindersStamped(checklist, activity, today, now) ==
  LET pushed == Concat([i \in 1..Len(checklist.items) |->
                          ItemReminders(checklist.items[i], activity, today, now)])
  IN  [r \in 1..Len(pushed) |->
         [pushed[r] EXCEPT !.id = Append(pushed[r].id, now)]]

generateReminders(checklist, activity, today, now) ==
  Concat([i \in 1..Len(checklist.items) |->
            ItemReminders(checklist.items[i], activity, today, now)])

\* lines 222-227 of getTasksByPhase: the items filed under a phase id, in
\* checklist order
PhaseItems(checklist, phaseId) ==
  SelectSeq(checklist.items, LAMBDA item : item.phaseId = phaseId)

getPhaseStatusAnyProgress(items) ==
  IF Len(items) = 0 THEN "completed"
  ELSE LET completedCount ==
             Cardinality({i \in 1..Len(items) : items[i].status # "not_started"})
       IN  IF completedCount = 0 THEN "not_started"
           ELSE IF completedCount = Len(items) THEN "completed"
           ELSE "in_progress"

getPhaseStatus(items) ==
  IF Len(items) = 0 THEN "completed"
  ELSE LET completedCount ==
             Cardinality({i \in 1..Len(items) :
                            items[i].status = "completed"
                              \/ items[i].status = "skipped"})
       IN  IF completedCount = 0 THEN "not_started"
           ELSE IF completedCount = Len(items) THEN "completed"
           ELSE "in_progress"

\* items.sort((a, b) => parseISO(a.dueDate).getTime() -
\* parseISO(b.dueDate).getTime()): a stable sort by due date
SortByDueDate(items) ==
  LET key(i)  == parseISO(items[i].dueDate).day
      rank(i) == Cardinality({j \in 1..Len(items) :
                                \/ key(j) < key(i)
                                \/ (key(j) = key(i) /\ j <= i)})
  IN  [r \in 1..Len(items) |-> items[CHOOSE i \in 1..Len(items) : rank(i) = r]]

\* the default value of the parameter daysAhead of getUpcomingTasks
DefaultDaysAhead == 14

getUpcomingTasksExclusiveCutoff(checklist, daysAhead, today) ==
  LET todayDate == [valid |-> TRUE, day |-> today]
      cutoff    == addDays(todayDate, daysAhead)
  IN  SortByDueDate(
        SelectSeq(checklist.items,
                  LAMBDA item :
                    /\ ~IsDone(item)
                    /\ ~isBefore(parseISO(item.dueDate), todayDate)
                    /\ isBefore(parseISO(item.dueDate), cutoff)))

getUpcomingTasksFromYesterday(checklist, daysAhead, today) ==
  LET todayDate == [valid |-> TRUE, day |-> today - 1]
      cutoff    == addDays([valid |-> TRUE, day |-> today], daysAhead)
  IN  SortByDueDate(
        SelectSeq(checklist.items,
                  LAMBDA item :
                    /\ ~IsDone(item)
                    /\ ~isBefore(parseISO(item.dueDate), todayDate)
                    /\ ~isAfter(parseISO(item.dueDate), cutoff)))

getUpcomingTasks(checklist, daysAhead, today) ==
  LET todayDate == [valid |-> TRUE, day |-> today]
      cutoff    == addDays(todayDate, daysAhead)
  IN  SortByDueDate(
        SelectSeq(checklist.items,
                  LAMBDA item :
                    /\ ~IsDone(item)
                    /\ ~isBefore(parseISO(item.dueDate), todayDate)
                    /\ ~isAfter(parseISO(item.dueDate), cutoff)))

getOverdueTasksUnsorted(checklist, today) ==
  LET todayDate == [valid |-> TRUE, day |-> today]
  IN  SelectSeq(checklist.items,
                LAMBDA item :
                  /\ ~IsDone(item)
                  /\ isBefore(parseISO(item.dueDate), todayDate))

getOverdueTasksAnyStatus(checklist, today) ==
  LET todayDate == [valid |-> TRUE, day |-> today]
  IN  SortByDueDate(
        SelectSeq(checklist.items,
                  LAMBDA item : isBefore(parseISO(item.dueDate), todayDate)))

getOverdueTasks(checklist, today) ==
  LET todayDate == [valid |-> TRUE, day |-> today]
  IN  SortByDueDate(
        SelectSeq(checklist.items,
                  LAMBDA item :
                    /\ ~IsDone(item)
                    /\ isBefore(parseISO(item.dueDate), todayDate)))

\* the keys of phaseMap in insertion order: the positions of the template
\* phases whose id no earlier phase has (Map.set on a present key keeps its
\* place), and the phase object a key maps to (the last one set)
PhaseKeys(template) ==
  LET first == {p \in 1..Len(template.phases) :
                  \A q \in 1..(p - 1) : template.phases[q].id # template.phases[p].id}
      rank(p) == Cardinality({q \in first : q <= p})
  IN  [r \in 1..Cardinality(first) |->
         template.phases[CHOOSE p \in first : rank(p) = r].id]

PhaseOfKey(template, phaseId) ==
  template.phases[SetMax({p \in 1..Len(template.phases) :
                            template.phases[p].id = phaseId})]

getTasksByPhaseUnsorted(checklist, template) ==
  LET keys == PhaseKeys(template)
  IN  [r \in 1..Len(keys) |->
         [phaseId |-> keys[r],
          phase   |-> PhaseOfKey(template, keys[r]),
          items   |-> PhaseItems(checklist, keys[r])]]

\* the entries of the returned Map, in iteration order
getTasksByPhase(checklist, template) ==
  LET keys == PhaseKeys(template)
  IN  [r \in 1..Len(keys) |->
         [phaseId |-> keys[r],
          phase   |-> PhaseOfKey(template, keys[r]),
          items   |-> SortByDueDate(PhaseItems(checklist, keys[r]))]]

\* the object formatDueDateWithStatus returns for a whole number of days
\* diff; texts are the tuples of the parts of their template literals, and
\* format(dueDate, 'MMM d, yyyy') is the tuple <<month, day, year>>
DueDateLabelWeekExclusive(diff, dueDate) ==
  LET abs == IF diff < 0 THEN -diff ELSE diff
  IN  IF diff < 0
      THEN [text |-> <<abs, IF abs # 1 THEN "days" ELSE "day", "overdue">>,
            status |-> "overdue"]
      ELSE IF diff = 0
      THEN [text |-> <<"Due today">>, status |-> "today"]
      ELSE IF diff < 7
      THEN [text |-> <<"Due in", diff, IF diff # 1 THEN "days" ELSE "day">>,
            status |-> "upcoming"]
      ELSE [text |-> <<format(dueDate)[2], format(dueDate)[3], format(dueDate)[1]>>,
            status |-> "future"]

DueDateLabel(diff, dueDate) ==
  LET abs == IF diff < 0 THEN -diff ELSE diff
  IN  IF diff < 0
      THEN [text |-> <<abs, IF abs # 1 THEN "days" ELSE "day", "overdue">>,
            status |-> "overdue"]
      ELSE IF diff = 0
      THEN [text |-> <<"Due today">>, status |-> "today"]
      ELSE IF diff <= 7
      THEN [text |-> <<"Due in", diff, IF diff # 1 THEN "days" ELSE "day">>,
            status |-> "upcoming"]
      ELSE [text |-> <<format(dueDate)[2], format(dueDate)[3], format(dueDate)[1]>>,
            status |-> "future"]

\* formatDueDateWithStatus(dueDateStr): for a string that does not parse,
\* diff is NaN, every comparison fails and format throws (ok = FALSE)
formatDueDateWithStatus(dueDateStr, today) ==
  LET dueDate   == parseISO(dueDateStr)
      todayDate == [valid |-> TRUE, day |-> today]
  IN  IF ~dueDate.valid
      THEN [ok |-> FALSE, value |-> [text |-> <<>>, status |-> ""]]
      ELSE [ok |-> TRUE,
            value |-> DueDateLabel(differenceInDays(dueDate, todayDate), dueDate)]

\* a JavaScript number that is NaN, an infinity, or the integer n
NaN == [kind |-> "NaN", n |-> 0]
Infinity == [kind |-> "Infinity", n |-> 0]
Finite(n) == [kind |-> "finite", n |-> n]

\* ChecklistPanel: Math.round((completedCount / totalCount) * 100), on counts
\* that are never negative
progress(checklist) ==
  IF checklist.totalCount = 0
  THEN (IF checklist.completedCount = 0 THEN NaN ELSE Infinity)
  ELSE Finite((200 * checklist.completedCount + checklist.totalCount)
                \div (2 * checklist.totalCount))

\* ChecklistPanel.handleStatusChange: the patch sent for a new status
handleStatusChange(newStatus, now) ==
  IF newStatus = "completed"
  THEN [status |-> newStatus, completedAt |-> now]
  ELSE [status |-> newStatus]

ChecklistItemStatus ==
  {"not_started", "in_progress", "completed", "blocked", "skipped"}

\* the partial updates callers of updateChecklistItem send
ItemUpdates(now) ==
  {handleStatusChange(st, now) : st \in ChecklistItemStatus}
    \cup {[assigneeId |-> "staff-1", notes |-> <<"call venue">>]}

\* the patches the harness applies
FnItemUpdates(now) ==
  {u \in ItemUpdates(now) :
     "status" \in DOMAIN u => u.status \in {"in_progress", "completed", "skipped"}}

\* ------------------------------------------------------------------------
\* State
\* ------------------------------------------------------------------------

VARIABLES
  today,              \* day number of startOfDay(new Date())
  nextId,             \* ids handed out so far by uuidv4()
  activities,         \* ActivityState.activities
  checklistInstances, \* ActivityState.checklistInstances
  reminders,          \* ActivityState.reminders
  handled,            \* history: ids of the reminders the user has dismissed
                      \* or marked read so far
  fnChecklist,        \* harness: the checklist value the caller holds
  fnCall,             \* harness: the library call made by the last step
  fnGen,              \* harness: what fnChecklist was generated from, and
                      \* the number of recalculations since
  fnOut,              \* harness: what a read-only call of the last step
                      \* returned
  steps               \* number of operations performed so far

storeVars == <<activities, checklistInstances, reminders, handled>>
fnVars    == <<fnChecklist, fnCall, fnGen, fnOut>>
vars      == <<today, nextId, activities, checklistInstances, reminders,
               handled, fnChecklist, fnCall, fnGen, fnOut, steps>>

\* the wall clock starts on 2024-02-29
FirstDay == DaysFromCivil(2024, 2, 29)

\* start dates offered to the engine: around the leap day, the empty
\* string, and a date that does not exist
EmptyDate == <<>>
StartDates == {<<2024, 2, 28>>, <<2024, 3, 1>>, EmptyDate, <<2024, 2, 30>>}

FnActivity(startDate) == [id |-> 1, name |-> "Expo", startDate |-> startDate]

NoCall ==
  [op |-> "none", input |-> NoChecklist, activity |-> FnActivity(EmptyDate),
   template |-> TplEmpty, today |-> 0, ok |-> TRUE, again |-> NoChecklist]

\* the edits of an activity made through updateActivity
ActivityUpdates ==
  {[startDate |-> sd] : sd \in {<<2024, 3, 1>>, EmptyDate}}
    \cup {[status |-> st] : st \in {"in_progress", "completed"}}

NoGen == [startDate |-> EmptyDate, template |-> TplEmpty, recalcs |-> 0]

NoOut == [kind |-> "none"]

Init ==
  /\ today = FirstDay
  /\ nextId = 0
  /\ activities = <<>>
  /\ checklistInstances = <<>>
  /\ reminders = <<>>
  /\ handled = {}
  /\ fnChecklist = NoChecklist
  /\ fnCall = NoCall
  /\ fnGen = NoGen
  /\ fnOut = NoOut
  /\ steps = 0

\* the wall clock passes midnight; the harness's record of the call made
\* by the last step is cleared
Tick ==
  /\ today < FirstDay + MaxDays
  /\ today' = today + 1
  /\ fnCall' = NoCall
  /\ fnOut' = NoOut
  /\ UNCHANGED <<nextId, storeVars, fnChecklist, fnGen, steps>>

\* ------------------------------------------------------------------------
\* Function harness: a caller applying the library functions to the
\* checklist value it holds
\* ------------------------------------------------------------------------

\* generateChecklistFromTemplate(activity, template), the caller's first
\* call; it is made twice with the same start date and template (the second
\* time for another activity id)
FnGenerate ==
  /\ steps < MaxSteps
  /\ fnOut = NoOut
  /\ fnChecklist = NoChecklist
  /\ \E sd \in StartDates, t \in Templates :
       LET a     == FnActivity(sd)
           res   == generateChecklistFromTemplate(a, t, nextId, today)
           n     == Len(FlatTasks(t)) + 1
           again == generateChecklistFromTemplate([a EXCEPT !.id = 2], t,
                                                  nextId + n, today)
       IN  /\ fnCall' = [op |-> "generate", input |-> fnChecklist,
                         activity |-> a, template |-> t, today |-> today,
                         ok |-> res.ok, again |-> again.value]
           /\ fnChecklist' = IF res.ok THEN res.value ELSE fnChecklist
           /\ fnGen' = IF res.ok
                       THEN [startDate |-> sd, template |-> t, recalcs |-> 0]
                       ELSE fnGen
           /\ nextId' = IF res.ok THEN nextId + 2 * n ELSE nextId
  /\ fnOut' = NoOut
  /\ steps' = steps + 1
  /\ UNCHANGED <<today, storeVars>>

\* recalculateChecklistDates(checklist, activity, template); the result is
\* recalculated once more with the same activity and template
FnRecalculate ==
  /\ steps < MaxSteps
  /\ fnOut = NoOut
  /\ fnChecklist # NoChecklist
  /\ \E sd \in StartDates \ {<<2024, 2, 30>>}, t \in Templates :
       LET a   == FnActivity(sd)
           res == recalculateChecklistDates(fnChecklist, a, t, today)
           again == recalculateChecklistDates(res.value, a, t, today)
       IN  /\ fnCall' = [op |-> "recalculate", input |-> fnChecklist,
                         activity |-> a, template |-> t, today |-> today,
                         ok |-> res.ok, again |-> again.value]
           /\ fnChecklist' = IF res.ok THEN res.value ELSE fnChecklist
           /\ fnGen' = IF res.ok
                       THEN [fnGen EXCEPT !.recalcs = fnGen.recalcs + 1]
                       ELSE fnGen
  /\ fnOut' = NoOut
  /\ steps' = steps + 1
  /\ UNCHANGED <<today, nextId, storeVars>>

\* updateChecklistCounts(checklist)
FnUpdateCounts ==
  /\ steps < MaxSteps
  /\ fnOut = NoOut
  /\ fnChecklist # NoChecklist
  /\ fnCall' = [op |-> "updateCounts", input |-> fnChecklist,
                activity |-> NoCall.activity, template |-> NoCall.template,
                today |-> today, ok |-> TRUE, again |-> NoChecklist]
  /\ fnChecklist' = updateChecklistCounts(fnChecklist, today, today)
  /\ fnOut' = NoOut
  /\ steps' = steps + 1
  /\ UNCHANGED <<today, nextId, storeVars, fnGen>>

\* the store's updateChecklistItem applied to the held checklist
FnUpdateItem ==
  /\ steps < MaxSteps
  /\ fnOut = NoOut
  /\ fnChecklist # NoChecklist
  /\ \E i \in 1..Len(fnChecklist.items), u \in FnItemUpdates(today) :
       /\ fnCall' = [op |-> "updateItem", input |-> fnChecklist,
                     activity |-> NoCall.activity, template |-> NoCall.template,
                     today |-> today, ok |-> TRUE, again |-> NoChecklist]
       /\ fnChecklist' = PatchChecklistItem(fnChecklist, fnChecklist.items[i].id,
                                            u, today, today)
  /\ fnOut' = NoOut
  /\ steps' = steps + 1
  /\ UNCHANGED <<today, nextId, storeVars, fnGen>>

\* A read-only call returns a value and leaves the held checklist as it is:
\* a run that goes on after it goes on as from the state it was made in.  The
\* harness therefore makes such a call the last call of its day (fnOut =
\* NoOut guards every call), and every checklist value is read on every day.

\* a read-only call on the held checklist, as recorded in fnCall
ReadCall(op, activity, template) ==
  [op |-> op, input |-> fnChecklist, activity |-> activity,
   template |-> template, today |-> today, ok |-> TRUE, again |-> NoChecklist]

\* generateReminders(checklist, activity), called twice in a row on the same
\* day; the time stamps <<day, n>> tell the two instants apart
FnReminders ==
  /\ fnOut = NoOut
  /\ fnChecklist # NoChecklist
  /\ LET a == FnActivity(fnGen.startDate)
     IN  /\ fnCall' = ReadCall("reminders", a, NoCall.template)
         /\ fnOut' = [kind   |-> "reminders",
                      first  |-> generateReminders(fnChecklist, a, today,
                                                   <<today, 1>>),
                      second |-> generateReminders(fnChecklist, a, today,
                                                   <<today, 2>>)]
  /\ UNCHANGED <<today, nextId, storeVars, fnChecklist, fnGen, steps>>

\* getPhaseStatus(items) on the items filed under a phase of the template the
\* checklist was generated from
FnPhaseStatus ==
  /\ fnOut = NoOut
  /\ fnChecklist # NoChecklist
  /\ \E p \in 1..Len(fnGen.template.phases) :
       LET items == PhaseItems(fnChecklist, fnGen.template.phases[p].id)
       IN  /\ fnCall' = ReadCall("phaseStatus", NoCall.activity, fnGen.template)
           /\ fnOut' = [kind   |-> "phaseStatus",
                        items  |-> items,
                        status |-> getPhaseStatus(items)]
  /\ UNCHANGED <<today, nextId, storeVars, fnChecklist, fnGen, steps>>

\* the progress percentage ChecklistPanel derives from the held checklist
FnProgress ==
  /\ fnOut = NoOut
  /\ fnChecklist # NoChecklist
  /\ fnCall' = ReadCall("progress", NoCall.activity, NoCall.template)
  /\ fnOut' = [kind |-> "progress", value |-> progress(fnChecklist)]
  /\ UNCHANGED <<today, nextId, storeVars, fnChecklist, fnGen, steps>>

\* the values of daysAhead the harness passes to getUpcomingTasks
DaysAheadInputs == {0, 1, DefaultDaysAhead}

\* the views of the held checklist taken on one day: getUpcomingTasks,
\* getOverdueTasks, the counts of updateChecklistCounts and generateReminders
FnViews ==
  /\ fnOut = NoOut
  /\ fnChecklist # NoChecklist
  /\ \E daysAhead \in DaysAheadInputs :
       LET a == FnActivity(fnGen.startDate)
       IN  /\ fnCall' = ReadCall("views", a, NoCall.template)
           /\ fnOut' = [kind      |-> "views",
                        daysAhead |-> daysAhead,
                        upcoming  |-> getUpcomingTasks(fnChecklist, daysAhead, today),
                        overdue   |-> getOverdueTasks(fnChecklist, today),
                        counted   |-> updateChecklistCounts(fnChecklist, today, today),
                        reminders |-> generateReminders(fnChecklist, a, today, today)]
  /\ UNCHANGED <<today, nextId, storeVars, fnChecklist, fnGen, steps>>

\* getTasksByPhase(checklist, template) with any template
FnTasksByPhase ==
  /\ fnOut = NoOut
  /\ fnChecklist # NoChecklist
  /\ \E t \in Templates :
       /\ fnCall' = ReadCall("tasksByPhase", NoCall.activity, t)
       /\ fnOut' = [kind |-> "tasksByPhase", groups |-> getTasksByPhase(fnChecklist, t)]
  /\ UNCHANGED <<today, nextId, storeVars, fnChecklist, fnGen, steps>>

\* formatDueDateWithStatus(item.dueDate) for an item of the held checklist
FnFormatDue ==
  /\ fnOut = NoOut
  /\ fnChecklist # NoChecklist
  /\ \E i \in 1..Len(fnChecklist.items) :
       LET res == formatDueDateWithStatus(fnChecklist.items[i].dueDate, today)
       IN  /\ fnCall' = [ReadCall("formatDue", NoCall.activity, NoCall.template)
                           EXCEPT !.ok = res.ok]
           /\ fnOut' = [kind    |-> "formatDue",
                        dueDate |-> fnChecklist.items[i].dueDate,
                        value   |-> res.value]
  /\ UNCHANGED <<today, nextId, storeVars, fnChecklist, fnGen, steps>>

FnNext ==
  \/ Tick
  \/ FnGenerate
  \/ FnRecalculate
  \/ FnUpdateCounts
  \/ FnUpdateItem
  \/ FnReminders
  \/ FnPhaseStatus
  \/ FnProgress
  \/ FnViews
  \/ FnTasksByPhase
  \/ FnFormatDue

FnSpec == Init /\ [][FnNext]_vars

\* ------------------------------------------------------------------------
\* The application store (ActivityContext.tsx)
\* ------------------------------------------------------------------------

\* data/defaultProcedures: the built-in templates and their lookup
defaultProcedures == <<TplShow, TplWebinar>>

\* the first template with the given id, <<>> when there is none
FindTemplate(id) ==
  LET idx == {i \in 1..Len(defaultProcedures) : defaultProcedures[i].id = id}
  IN  IF idx = {} THEN <<>> ELSE <<defaultProcedures[CHOOSE i \in idx : \A j \in idx : i <= j]>>

getProcedureForActivity(eventType) ==
  LET idx == {i \in 1..Len(defaultProcedures) :
                defaultProcedures[i].eventType = eventType}
  IN  IF idx = {} THEN <<>> ELSE <<defaultProcedures[CHOOSE i \in idx : \A j \in idx : i <= j]>>

\* getActivityCategory with no custom activity types registered
getActivityCategory(activityType) ==
  IF activityType \in {"outbound_trade_mission", "inbound_trade_mission", "trade_show"}
  THEN "trade"
  ELSE IF activityType \in {"webinar", "seminar", "seminar_series"}
  THEN "educational"
  ELSE IF activityType = "consultation" THEN "consultation"
  ELSE "other"

ActivityTypes == {"trade_show", "webinar", "consultation", "custom_fair"}

\* positions of the elements of a list with a given id
IndexOfId(list, id) == {i \in 1..Len(list) : list[i].id = id}

\* list.find(x => x.id === id), as a list of at most one element
FindById(list, id) ==
  IF IndexOfId(list, id) = {} THEN <<>>
  ELSE <<list[CHOOSE i \in IndexOfId(list, id) : \A j \in IndexOfId(list, id) : i <= j]>>

\* list.filter(x => x.id !== id)
RECURSIVE RemoveId(_, _)
RemoveId(list, id) ==
  IF list = <<>> THEN <<>>
  ELSE IF Head(list).id = id THEN RemoveId(Tail(list), id)
  ELSE <<Head(list)>> \o RemoveId(Tail(list), id)

\* reducer cases (the updatedAt stamp of an activity is not modelled)
ReduceUpdateActivity(acts, id, updates, now) ==
  [i \in 1..Len(acts) |->
     IF acts[i].id = id THEN Spread(acts[i], updates) ELSE acts[i]]

ReduceUpdateChecklist(lists, payload) ==
  [i \in 1..Len(lists) |-> IF lists[i].id = payload.id THEN payload ELSE lists[i]]

\* the effect that regenerates the reminders when activities or checklists
\* change
RegenerateReminders(acts, lists, day) ==
  Concat([i \in 1..Len(lists) |->
            LET found == { k \in 1..Len(acts) : acts[k].id = lists[i].activityId }
            IN  IF found = {} THEN <<>>
                ELSE LET activity == acts[CHOOSE k \in found : \A j \in found : k <= j]
                     IN  IF activity.status # "completed" /\ activity.status # "cancelled"
                         THEN generateReminders(lists[i], activity, day, day)
                         ELSE <<>>])

\* the activity object built by createTradeActivity / createEducationalActivity /
\* createConsultationActivity / the generic branch of createActivity
NewActivity(id, activityType, name, status, startDate, procedureTemplateId, now) ==
  [id |-> id, activityType |-> activityType, name |-> name, status |-> status,
   startDate |-> startDate, procedureTemplateId |-> procedureTemplateId]

\* the template createTradeActivity / createEducationalActivity select
SelectTemplate(activityType, procedureTemplateId) ==
  LET eventType == IF activityType = "outbound_trade_mission" THEN "trade_mission"
                   ELSE IF activityType = "inbound_trade_mission" THEN "reverse_mission"
                   ELSE IF activityType = "seminar_series" THEN "seminar"
                   ELSE activityType
  IN  IF FindTemplate(procedureTemplateId) # <<>>
      THEN FindTemplate(procedureTemplateId)
      ELSE getProcedureForActivity(eventType)

\* State after create...Activity(data) in the branch of the given category:
\* ADD_ACTIVITY, then for trade and educational activities with a template
\* and a non-empty start date ADD_CHECKLIST and UPDATE_ACTIVITY.  When
\* generation throws, the ADD_ACTIVITY already dispatched still applies.
CreateIn(category, activityType, name, status, startDate, procedureTemplateId) ==
  LET activity == NewActivity(nextId + 1, activityType, name, status, startDate,
                              procedureTemplateId, today)
      added    == Append(activities, activity)
      tpl      == SelectTemplate(activityType, procedureTemplateId)
      wants    == /\ category \in {"trade", "educational"}
                  /\ tpl # <<>>
                  /\ startDate # EmptyDate
      res      == generateChecklistFromTemplate(activity, tpl[1], nextId + 1, today)
  IN  IF wants /\ res.ok
      THEN /\ activities' =
                ReduceUpdateActivity(added, activity.id,
                                     [procedureTemplateId |-> tpl[1].id,
                                      checklistInstanceId |-> res.value.id],
                                     today)
           /\ checklistInstances' = Append(checklistInstances, res.value)
           /\ nextId' = res.value.id
      ELSE /\ activities' = added
           /\ checklistInstances' = checklistInstances
           /\ nextId' = nextId + 1

RegenerateKeepingFlags ==
  reminders' =
    LET fresh == RegenerateReminders(activities', checklistInstances', today)
    IN  [k \in 1..Len(fresh) |->
           LET old == FindById(reminders, fresh[k].id)
           IN  IF old = <<>> THEN fresh[k]
               ELSE [fresh[k] EXCEPT !.isRead = old[1].isRead,
                                     !.isDismissed = old[1].isDismissed]]

Regenerate == reminders' = RegenerateReminders(activities', checklistInstances', today)

\* createActivity(activityType, data)
CreateActivity ==
  /\ steps < MaxOps
  /\ steps' = steps + 1
  /\ \E activityType \in ActivityTypes, startDate \in {<<2024, 2, 28>>, EmptyDate} :
       LET category == getActivityCategory(activityType)
       IN  CreateIn(category, activityType, <<"Expo">>, "draft", startDate, "")
  /\ Regenerate
  /\ UNCHANGED <<today, handled, fnVars>>

\* updateActivity(id, updates)
UpdateActivity ==
  /\ steps < MaxOps
  /\ steps' = steps + 1
  /\ \E i \in 1..Len(activities), updates \in ActivityUpdates :
       activities' = ReduceUpdateActivity(activities, activities[i].id, updates, today)
  /\ checklistInstances' = checklistInstances
  /\ Regenerate
  /\ UNCHANGED <<today, nextId, handled, fnVars>>

DeleteActivityOnly ==
  /\ steps < MaxOps
  /\ steps' = steps + 1
  /\ UNCHANGED <<today, nextId, handled, fnVars>>
  /\ \E i \in 1..Len(activities) :
       /\ checklistInstances' = checklistInstances
       /\ activities' = RemoveId(activities, activities[i].id)
  /\ reminders' = RegenerateReminders(activities', checklistInstances', today)

\* deleteActivity(id)
DeleteActivity ==
  /\ steps < MaxOps
  /\ steps' = steps + 1
  /\ UNCHANGED <<today, nextId, handled, fnVars>>
  /\ \E i \in 1..Len(activities) :
       LET activity == activities[i]
       IN  /\ checklistInstances' =
                IF "checklistInstanceId" \in DOMAIN activity
                THEN RemoveId(checklistInstances, activity.checklistInstanceId)
                ELSE checklistInstances
           /\ activities' = RemoveId(activities, activity.id)
  /\ Regenerate

\* duplicateActivity(id)
DuplicateActivity ==
  /\ steps < MaxOps
  /\ steps' = steps + 1
  /\ \E i \in 1..Len(activities) :
       LET original == activities[i]
           category == getActivityCategory(original.activityType)
           branch   == IF category \in {"trade", "consultation"} THEN category
                       ELSE "educational"
       IN  CreateIn(branch, original.activityType,
                    original.name \o <<"(Copy)">>, "draft", EmptyDate,
                    original.procedureTemplateId)
  /\ Regenerate
  /\ UNCHANGED <<today, handled, fnVars>>

\* updateChecklistItem(checklistId, itemId, updates) on a stored checklist
UpdateChecklistItem ==
  /\ steps < MaxOps
  /\ steps' = steps + 1
  /\ activities' = activities
  /\ UNCHANGED <<today, nextId, handled, fnVars>>
  /\ \E c \in 1..Len(checklistInstances) :
       \E k \in 1..Len(checklistInstances[c].items), updates \in ItemUpdates(today) :
          checklistInstances' =
            ReduceUpdateChecklist(
              checklistInstances,
              PatchChecklistItem(checklistInstances[c],
                                 checklistInstances[c].items[k].id,
                                 updates, today, today))
  /\ Regenerate

\* loadSampleData: SET_ACTIVITIES with freshly built sample activities (two
\* of them stand for the list: a trade show with a template id and a
\* consultation without), dated in the current year and month
LoadSampleData ==
  /\ steps < MaxOps
  /\ steps' = steps + 1
  /\ LET ymd == CivilFromDays(today)
     IN  activities' =
           << NewActivity(nextId + 1, "trade_show", <<"Fancy Food Show">>,
                          "planning", <<ymd[1], 6, 25>>, "trade-show-template", today),
              NewActivity(nextId + 2, "consultation", <<"ABC Foods">>,
                          "in_progress", <<ymd[1], ymd[2], 3>>, "", today) >>
  /\ nextId' = nextId + 2
  /\ checklistInstances' = checklistInstances
  /\ Regenerate
  /\ UNCHANGED <<today, handled, fnVars>>

\* dismissReminder(id)
DismissReminder ==
  /\ steps < MaxOps
  /\ steps' = steps + 1
  /\ \E r \in 1..Len(reminders) :
       /\ reminders' =
            [i \in 1..Len(reminders) |->
                       IF reminders[i].id = reminders[r].id
                       THEN [reminders[i] EXCEPT !.isDismissed = TRUE]
                       ELSE reminders[i]]
       /\ handled' = handled \cup {reminders[r].id}
  /\ UNCHANGED <<today, nextId, activities, checklistInstances, fnVars>>

\* markReminderRead(id)
MarkReminderRead ==
  /\ steps < MaxOps
  /\ steps' = steps + 1
  /\ \E r \in 1..Len(reminders) :
       /\ reminders' =
            [i \in 1..Len(reminders) |->
                       IF reminders[i].id = reminders[r].id
                       THEN [reminders[i] EXCEPT !.isRead = TRUE]
                       ELSE reminders[i]]
       /\ handled' = handled \cup {reminders[r].id}
  /\ UNCHANGED <<today, nextId, activities, checklistInstances, fnVars>>

Next ==
  \/ Tick
  \/ CreateActivity
  \/ UpdateActivity
  \/ DeleteActivity
  \/ DuplicateActivity
  \/ UpdateChecklistItem
  \/ LoadSampleData
  \/ DismissReminder
  \/ MarkReminderRead

Spec == Init /\ [][Next]_vars

\* ------------------------------------------------------------------------
\* Properties
\* ------------------------------------------------------------------------

\* day number of a date string, read off the calendar fields
DayOf(dateStr) == DaysFromCivil(dateStr[1], dateStr[2], dateStr[3])

Generated   == fnCall.op = "generate" /\ fnCall.ok
Recalculated == fnCall.op = "recalculate" /\ fnCall.ok

\* the dueDate / reminderDates columns of a checklist
DatesOf(checklist) ==
  [i \in 1..Len(checklist.items) |->
     <<checklist.items[i].dueDate, checklist.items[i].reminderDates>>]

\* C1: after generateChecklistFromTemplate(activity, template) every task of
\* every phase has an item whose dueDate is startDate + dueOffset days and
\* whose reminderDates are, position by position, dueDate - offset days; a
\* second call with the same start date and template yields the same
\* dueDate / reminderDates (ids differ).
C1_GenerateDates ==
  Generated =>
    LET flat  == FlatTasks(fnCall.template)
        start == DayOf(fnCall.activity.startDate)
        items == fnChecklist.items
    IN  /\ \A i \in 1..Len(flat) :
             \E k \in 1..Len(items) : items[k].taskId = flat[i].task.id
        /\ \A i \in 1..Len(flat), k \in 1..Len(items) :
             items[k].taskId = flat[i].task.id =>
               LET task == flat[i].task
               IN  /\ parseISO(items[k].dueDate).valid
                   /\ DayOf(items[k].dueDate) = start + task.dueOffset
                   /\ Len(items[k].reminderDates) = Len(task.reminderOffsets)
                   /\ \A j \in 1..Len(task.reminderOffsets) :
                        /\ parseISO(items[k].reminderDates[j]).valid
                        /\ DayOf(items[k].reminderDates[j]) =
                             DayOf(items[k].dueDate) - task.reminderOffsets[j]
        /\ DatesOf(fnCall.again) = DatesOf(fnChecklist)
        /\ \A k \in 1..Len(items) : fnCall.again.items[k].id # items[k].id

\* C1 witness: the trade show template generated for 2024-02-28, with due
\* dates on both sides of the start date and a reminder on the leap day
C1_Witness ==
  /\ Generated
  /\ fnCall.template = TplShow
  /\ fnCall.activity.startDate = <<2024, 2, 28>>
  /\ fnChecklist.items[1].dueDate = <<2024, 2, 29>>
  /\ fnChecklist.items[1].reminderDates = << <<2024, 2, 27>>, <<2024, 2, 29>> >>
  /\ fnChecklist.items[2].dueDate = <<2024, 2, 26>>
  /\ fnChecklist.items[2].reminderDates = << <<2024, 2, 25>> >>

\* C3: recalculateChecklistDates leaves every field other than dueDate and
\* reminderDates of an item found in the template as it was in the input
\* (status, completedAt, notes, assigneeId, id, taskId, phaseId, title, ...).
C3_RecalculateKeepsOtherFields ==
  Recalculated =>
    /\ Len(fnChecklist.items) = Len(fnCall.input.items)
    /\ \A i \in 1..Len(fnCall.input.items) :
         LET before == fnCall.input.items[i]
             after  == fnChecklist.items[i]
         IN  TaskMapHas(FlatTasks(fnCall.template), before.taskId) =>
               /\ DOMAIN after = DOMAIN before
               /\ \A f \in DOMAIN before \ {"dueDate", "reminderDates"} :
                    after[f] = before[f]

\* C3 witness: a completed item with completedAt set is recalculated to
\* another due date
C3_Witness ==
  /\ Recalculated
  /\ \E i \in 1..Len(fnCall.input.items) :
       /\ fnCall.input.items[i].status = "completed"
       /\ "completedAt" \in DOMAIN fnCall.input.items[i]
       /\ TaskMapHas(FlatTasks(fnCall.template), fnCall.input.items[i].taskId)
       /\ fnChecklist.items[i].dueDate # fnCall.input.items[i].dueDate
       /\ fnChecklist.items[i].status = "completed"

\* C4: recalculating a checklist generated from (S1, T) with the same
\* template T and start date S2 moves every dueDate and every reminder date
\* by exactly S2 - S1 days.
C4_RecalculateShiftsByDelta ==
  (/\ Recalculated
   /\ fnGen.recalcs = 1
   /\ fnCall.template = fnGen.template
   /\ parseISO(fnGen.startDate).valid
   /\ parseISO(fnCall.activity.startDate).valid) =>
    LET delta == DayOf(fnCall.activity.startDate) - DayOf(fnGen.startDate)
    IN  \A i \in 1..Len(fnCall.input.items) :
          LET before == fnCall.input.items[i]
              after  == fnChecklist.items[i]
          IN  /\ DayOf(after.dueDate) = DayOf(before.dueDate) + delta
              /\ Len(after.reminderDates) = Len(before.reminderDates)
              /\ \A j \in 1..Len(before.reminderDates) :
                   DayOf(after.reminderDates[j]) =
                     DayOf(before.reminderDates[j]) + delta

\* C4 witness: a checklist generated for 2024-02-28 is recalculated with its
\* own template for 2024-03-01
C4_Witness ==
  /\ Recalculated
  /\ fnGen.recalcs = 1
  /\ fnCall.template = fnGen.template
  /\ fnGen.startDate = <<2024, 2, 28>>
  /\ fnCall.activity.startDate = <<2024, 3, 1>>
  /\ Len(fnChecklist.items) = 2
  /\ fnChecklist.items[1].reminderDates # fnCall.input.items[1].reminderDates

\* C5: in recalculateChecklistDates an item whose taskId is not a task of the
\* template comes back unmodified at its position, and a missing task is no
\* error: the call fails for no input with a valid start date, nor for a
\* checklist none of whose items is found.
C5_UnknownTaskItemUntouched ==
  /\ Recalculated =>
       /\ Len(fnChecklist.items) = Len(fnCall.input.items)
       /\ \A i \in 1..Len(fnCall.input.items) :
            ~TaskMapHas(FlatTasks(fnCall.template), fnCall.input.items[i].taskId)
              => fnChecklist.items[i] = fnCall.input.items[i]
  /\ (/\ fnCall.op = "recalculate"
      /\ \/ parseISO(fnCall.activity.startDate).valid
         \/ \A i \in 1..Len(fnCall.input.items) :
              ~TaskMapHas(FlatTasks(fnCall.template),
                          fnCall.input.items[i].taskId)) => fnCall.ok

\* C5 witness: a recalculation in which one item is found in the template
\* and moved while another is not found
C5_Witness ==
  /\ Recalculated
  /\ \E i, k \in 1..Len(fnCall.input.items) :
       /\ ~TaskMapHas(FlatTasks(fnCall.template), fnCall.input.items[i].taskId)
       /\ TaskMapHas(FlatTasks(fnCall.template), fnCall.input.items[k].taskId)
       /\ fnChecklist.items[k].dueDate # fnCall.input.items[k].dueDate

\* C6: recalculateChecklistDates returns the same number of items with the
\* same ids in the same order, whatever the template gained or lost, and the
\* three count fields of the input.
C6_RecalculateKeepsItemsAndCounts ==
  Recalculated =>
    /\ Len(fnChecklist.items) = Len(fnCall.input.items)
    /\ \A i \in 1..Len(fnCall.input.items) :
         fnChecklist.items[i].id = fnCall.input.items[i].id
    /\ fnChecklist.completedCount = fnCall.input.completedCount
    /\ fnChecklist.totalCount = fnCall.input.totalCount
    /\ fnChecklist.overdueCount = fnCall.input.overdueCount

\* C6 witness: the template lost task b and gained task d since generation,
\* and the overdue count kept by the recalculation is stale
C6_Witness ==
  /\ Recalculated
  /\ fnGen.template = TplShow
  /\ fnCall.template = TplShowV2
  /\ Len(fnChecklist.items) = 2
  /\ fnChecklist.overdueCount = 0
  /\ \E i \in 1..2 : /\ ~IsDone(fnChecklist.items[i])
                     /\ DayOf(fnChecklist.items[i].dueDate) < fnCall.today

\* the counts as the rollup rules state them, for a given day
CompletedItems(checklist) ==
  {i \in 1..Len(checklist.items) :
     checklist.items[i].status \in {"completed", "skipped"}}

OverdueItems(checklist, day) ==
  {i \in 1..Len(checklist.items) :
     /\ checklist.items[i].status \notin {"completed", "skipped"}
     /\ DayOf(checklist.items[i].dueDate) < day}

\* C7: updateChecklistCounts evaluated on day today returns completedCount =
\* number of completed or skipped items and overdueCount = number of items
\* neither completed nor skipped that are due strictly before today.
C7_CountsAfterRollup ==
  fnCall.op = "updateCounts" =>
    /\ fnChecklist.completedCount = Cardinality(CompletedItems(fnChecklist))
    /\ fnChecklist.overdueCount =
         Cardinality(OverdueItems(fnChecklist, fnCall.today))
    /\ fnChecklist.items = fnCall.input.items

\* C7 witness: a rollup over one overdue item and one open item due today
C7_Witness ==
  /\ fnCall.op = "updateCounts"
  /\ fnChecklist.overdueCount = 1
  /\ \E i \in 1..Len(fnChecklist.items) :
       /\ ~IsDone(fnChecklist.items[i])
       /\ DayOf(fnChecklist.items[i].dueDate) = fnCall.today

\* C9: totalCount is the number of items of every checklist reached through
\* generation, recalculation, rollup and item patches.
C9_TotalCountIsLength ==
  fnChecklist.totalCount = Len(fnChecklist.items)

\* C9 witness: a two-item checklist that was recalculated and then patched
C9_Witness ==
  /\ fnCall.op = "updateItem"
  /\ fnGen.recalcs >= 1
  /\ Len(fnChecklist.items) = 2
  /\ fnChecklist.totalCount = 2

\* C10: a generated checklist has every item not_started with empty notes
\* and attachments, completedCount = 0 and overdueCount = 0 even when a due
\* date is already past, and carries the ids of the activity and template.
C10_GeneratedChecklistIsBlank ==
  Generated =>
    /\ \A i \in 1..Len(fnChecklist.items) :
         /\ fnChecklist.items[i].status = "not_started"
         /\ fnChecklist.items[i].notes = <<>>
         /\ fnChecklist.items[i].attachments = <<>>
    /\ fnChecklist.completedCount = 0
    /\ fnChecklist.overdueCount = 0
    /\ fnChecklist.activityId = fnCall.activity.id
    /\ fnChecklist.procedureTemplateId = fnCall.template.id

\* C10 witness: a checklist generated with an item already past due
C10_Witness ==
  /\ Generated
  /\ \E i \in 1..Len(fnChecklist.items) :
       DayOf(fnChecklist.items[i].dueDate) < fnCall.today

\* number of tasks in the phases listed before phase p of a template
TasksBefore(template, p) ==
  IF p = 1 THEN 0
  ELSE Len(Concat([q \in 1..(p - 1) |-> template.phases[q].tasks]))

\* C11: generateChecklistFromTemplate creates exactly one item per template
\* task, in template order: the k-th task of the p-th listed phase is the
\* item at position (tasks of the phases listed before p) + k, and that item
\* carries the ids of its task and phase; neither due dates nor the order
\* fields rearrange the items.
C11_ItemsInTemplateOrder ==
  Generated =>
    LET phases == fnCall.template.phases
        items  == fnChecklist.items
    IN  /\ Len(items) = TasksBefore(fnCall.template, Len(phases) + 1)
        /\ \A p \in 1..Len(phases) :
             \A k \in 1..Len(phases[p].tasks) :
               LET item == items[TasksBefore(fnCall.template, p) + k]
               IN  /\ item.taskId = phases[p].tasks[k].id
                   /\ item.phaseId = phases[p].id
                   /\ item.title = phases[p].tasks[k].title

\* C11 witness: the trade show template generated with task a listed before
\* task b although b is due three days earlier
C11_Witness ==
  /\ Generated
  /\ fnCall.template = TplShow
  /\ Len(fnChecklist.items) = 2
  /\ fnChecklist.items[1].taskId = "a"
  /\ fnChecklist.items[2].taskId = "b"
  /\ DayOf(fnChecklist.items[2].dueDate) < DayOf(fnChecklist.items[1].dueDate)

ReminderCall == fnCall.op = "reminders"

\* the items of a checklist that are neither completed nor skipped
OpenItems(checklist) ==
  {i \in 1..Len(checklist.items) :
     checklist.items[i].status \notin {"completed", "skipped"}}

\* the reminders of a list that have the given type and item, in list order
RemindersFor(list, type, itemId) ==
  SelectSeq(list, LAMBDA r : r.type = type /\ r.checklistItemId = itemId)

\* C12: generateReminders emits no reminder, overdue or upcoming, for an
\* item whose status is completed or skipped, wherever its due date and
\* reminder dates lie relative to today.
C12_NoReminderForDoneItem ==
  ReminderCall =>
    \A k \in 1..Len(fnOut.first), i \in 1..Len(fnCall.input.items) :
      fnOut.first[k].checklistItemId = fnCall.input.items[i].id =>
        i \in OpenItems(fnCall.input)

\* C12 witness: reminders are derived while a completed or skipped item is
\* past due or has a reminder date today, and another item does remind
C12_Witness ==
  /\ ReminderCall
  /\ fnOut.first # <<>>
  /\ \E i \in 1..Len(fnCall.input.items) :
       LET item == fnCall.input.items[i]
       IN  /\ i \notin OpenItems(fnCall.input)
           /\ \/ DayOf(item.dueDate) < fnCall.today
              \/ \E j \in 1..Len(item.reminderDates) :
                   DayOf(item.reminderDates[j]) = fnCall.today

\* C13: on day today every item that is neither completed nor skipped gets
\* exactly one task_overdue reminder when its due date is strictly before
\* today and none otherwise (none when it is due today); the reminder's id is
\* "overdue-" + item.id and its message gives today - dueDate in whole days,
\* worded "day" for 1 and "days" otherwise.
C13_OneOverdueReminderPerLateItem ==
  ReminderCall =>
    \A i \in OpenItems(fnCall.input) :
      LET item == fnCall.input.items[i]
          late == fnCall.today - DayOf(item.dueDate)
          rs   == RemindersFor(fnOut.first, "task_overdue", item.id)
      IN  /\ Len(rs) = (IF late > 0 THEN 1 ELSE 0)
          /\ \A k \in 1..Len(rs) :
               /\ rs[k].id = <<"overdue", item.id>>
               /\ rs[k].message[3] = "was due"
               /\ rs[k].message[4] = late
               /\ rs[k].message[5] = (IF late = 1 THEN "day" ELSE "days")

\* C13 witness: one item is a single day late and another several days late
C13_Witness ==
  /\ ReminderCall
  /\ \E k, n \in 1..Len(fnOut.first) :
       /\ fnOut.first[k].type = "task_overdue"
       /\ fnOut.first[k].message[4] = 1
       /\ fnOut.first[k].message[5] = "day"
       /\ fnOut.first[n].type = "task_overdue"
       /\ fnOut.first[n].message[4] > 1
       /\ fnOut.first[n].message[5] = "days"

\* C14: on day today an item that is neither completed nor skipped gets a
\* task_due reminder for exactly those of its reminder dates that equal
\* today, in their order (none for a past date, none for tomorrow or later);
\* each has id "upcoming-" + item.id + "-" + the date string, scheduledFor
\* that date, and a message giving dueDate - today in whole days.
C14_UpcomingReminderOnlyOnItsDay ==
  ReminderCall =>
    \A i \in OpenItems(fnCall.input) :
      LET item  == fnCall.input.items[i]
          fired == SelectSeq(item.reminderDates,
                             LAMBDA d : DayOf(d) = fnCall.today)
          until == DayOf(item.dueDate) - fnCall.today
          rs    == RemindersFor(fnOut.first, "task_due", item.id)
      IN  /\ Len(rs) = Len(fired)
          /\ \A k \in 1..Len(rs) :
               /\ rs[k].id = <<"upcoming", item.id, fired[k]>>
               /\ rs[k].scheduledFor = fired[k]
               /\ rs[k].message[3] = "is due in"
               /\ rs[k].message[4] = until
               /\ rs[k].message[5] = (IF until = 1 THEN "day" ELSE "days")

\* C14 witness: a reminder fires two days ahead of its due date while other
\* reminder dates of open items lie in the past and in the future
C14_Witness ==
  /\ ReminderCall
  /\ \E k \in 1..Len(fnOut.first) :
       /\ fnOut.first[k].type = "task_due"
       /\ fnOut.first[k].message[4] = 2
  /\ \E i \in OpenItems(fnCall.input) :
       \E j \in 1..Len(fnCall.input.items[i].reminderDates) :
         DayOf(fnCall.input.items[i].reminderDates[j]) < fnCall.today
  /\ \E i \in OpenItems(fnCall.input) :
       \E j \in 1..Len(fnCall.input.items[i].reminderDates) :
         DayOf(fnCall.input.items[i].reminderDates[j]) > fnCall.today

\* what C15 compares of a reminder
ReminderFace(r) ==
  <<r.id, r.type, r.message, r.scheduledFor, r.recipientIds>>

\* C15: two calls of generateReminders with the same checklist, activity and
\* today return lists of the same length whose reminders agree, position by
\* position, in id, type, message, scheduledFor and recipientIds.
C15_RemindersRepeatable ==
  ReminderCall =>
    /\ Len(fnOut.second) = Len(fnOut.first)
    /\ \A k \in 1..Len(fnOut.first) :
         ReminderFace(fnOut.second[k]) = ReminderFace(fnOut.first[k])

\* C15 witness: two calls made at different instants return an overdue and
\* an upcoming reminder each, one of them with a recipient
C15_Witness ==
  /\ ReminderCall
  /\ \E k, n \in 1..Len(fnOut.first) :
       /\ fnOut.first[k].type = "task_overdue"
       /\ fnOut.first[n].type = "task_due"
       /\ fnOut.first[k].createdAt # fnOut.second[k].createdAt
  /\ \E k \in 1..Len(fnOut.first) : fnOut.first[k].recipientIds # <<>>

\* C18: the progress percentage is a number, and it is 0 for a checklist
\* whose totalCount is 0.
C18_ProgressIsZeroWithoutTasks ==
  fnCall.op = "progress" =>
    /\ fnOut.value.kind = "finite"
    /\ fnCall.input.totalCount = 0 => fnOut.value.n = 0

\* C19: generateChecklistFromTemplate fails, returning nothing, whenever the
\* activity's startDate is empty or no calendar date, whatever the template.
C19_InvalidStartDateFails ==
  (fnCall.op = "generate" /\ ~parseISO(fnCall.activity.startDate).valid)
    => ~fnCall.ok

\* C20: getPhaseStatus(items) is completed when items is empty or all of
\* them are completed or skipped, not_started when items is not empty and
\* none of them is completed or skipped, and in_progress otherwise.
C20_PhaseStatus ==
  fnCall.op = "phaseStatus" =>
    LET items == fnOut.items
        done  == {i \in 1..Len(items) :
                    items[i].status \in {"completed", "skipped"}}
    IN  /\ (items = <<>> \/ done = 1..Len(items)) => fnOut.status = "completed"
        /\ (items # <<>> /\ done = {}) => fnOut.status = "not_started"
        /\ (done # {} /\ done # 1..Len(items)) => fnOut.status = "in_progress"

\* C20 witness: a phase whose items are untouched or in progress, none of
\* them done
C20_Witness ==
  /\ fnCall.op = "phaseStatus"
  /\ fnOut.status = "not_started"
  /\ \E i \in 1..Len(fnOut.items) : fnOut.items[i].status = "in_progress"

ViewsCall == fnCall.op = "views"

\* a list of items is in ascending order of due date
AscendingByDueDate(items) ==
  \A k \in 1..(Len(items) - 1) :
    DayOf(items[k].dueDate) <= DayOf(items[k + 1].dueDate)

\* a list holds exactly the items of a checklist at the given positions,
\* each once
HoldsExactly(list, checklist, positions) ==
  /\ Len(list) = Cardinality(positions)
  /\ \A i \in positions : \E k \in 1..Len(list) : list[k] = checklist.items[i]

\* C21: getUpcomingTasks(checklist, daysAhead) on day today returns exactly
\* the items neither completed nor skipped whose due date d satisfies
\* today <= d <= today + daysAhead, in ascending order of due date; the
\* default of daysAhead is 14.
C21_UpcomingTasks ==
  /\ DefaultDaysAhead = 14
  /\ ViewsCall =>
       /\ HoldsExactly(fnOut.upcoming, fnCall.input,
                       {i \in OpenItems(fnCall.input) :
                          /\ fnCall.today <= DayOf(fnCall.input.items[i].dueDate)
                          /\ DayOf(fnCall.input.items[i].dueDate)
                               <= fnCall.today + fnOut.daysAhead})
       /\ AscendingByDueDate(fnOut.upcoming)

\* C21 witness: with daysAhead = 1 an item due tomorrow is returned while
\* another open item is not
C21_Witness ==
  /\ ViewsCall
  /\ fnOut.daysAhead = 1
  /\ \E k \in 1..Len(fnOut.upcoming) :
       DayOf(fnOut.upcoming[k].dueDate) = fnCall.today + 1
  /\ Cardinality(OpenItems(fnCall.input)) > Len(fnOut.upcoming)

\* C22: getOverdueTasks(checklist) on day today returns exactly the items
\* neither completed nor skipped that are due strictly before today, in
\* ascending order of due date, and the checklist keeps its own item order.
C22_OverdueTasks ==
  ViewsCall =>
    /\ HoldsExactly(fnOut.overdue, fnCall.input,
                    {i \in OpenItems(fnCall.input) :
                       DayOf(fnCall.input.items[i].dueDate) < fnCall.today})
    /\ AscendingByDueDate(fnOut.overdue)
    /\ fnChecklist.items = fnCall.input.items

\* C22 witness: two overdue items are returned in the reverse of their
\* checklist order, and an open item due today is not returned
C22_Witness ==
  /\ ViewsCall
  /\ Len(fnOut.overdue) = 2
  /\ fnOut.overdue[1] = fnCall.input.items[2]
  /\ fnOut.overdue[2] = fnCall.input.items[1]
  /\ DayOf(fnOut.overdue[1].dueDate) < DayOf(fnOut.overdue[2].dueDate)

TasksByPhaseCall == fnCall.op = "tasksByPhase"

\* one group per template phase, in template phase order, each holding
\* exactly the items filed under its phase id in ascending order of due date
GroupsFollowTemplate ==
  LET phases == fnCall.template.phases
      groups == fnOut.groups
  IN  /\ Len(groups) = Len(phases)
      /\ \A p \in 1..Len(phases) :
           /\ groups[p].phaseId = phases[p].id
           /\ groups[p].phase = phases[p]
           /\ HoldsExactly(groups[p].items, fnCall.input,
                           {i \in 1..Len(fnCall.input.items) :
                              fnCall.input.items[i].phaseId = phases[p].id})
           /\ AscendingByDueDate(groups[p].items)

\* the number of places an item of the input checklist takes in the groups
PlacesOf(i) ==
  Cardinality({pk \in (1..Len(fnOut.groups)) \X (1..Len(fnCall.input.items)) :
                 /\ pk[2] <= Len(fnOut.groups[pk[1]].items)
                 /\ fnOut.groups[pk[1]].items[pk[2]] = fnCall.input.items[i]})

\* C23 as stated: getTasksByPhase returns one group per template phase in
\* template order, each holding exactly the items of its phase id sorted by
\* ascending due date, and every item of the checklist appears in exactly
\* one group.
C23_EveryItemInOneGroup ==
  TasksByPhaseCall =>
    /\ GroupsFollowTemplate
    /\ \A i \in 1..Len(fnCall.input.items) : PlacesOf(i) = 1

\* C23 amended: getTasksByPhase returns one group per template phase in
\* template order, each holding exactly the items of its phase id sorted by
\* ascending due date; an item whose phaseId is the id of a template phase
\* appears in exactly one group and an item whose phaseId is no phase of the
\* template appears in none.
C23_ItemsOfKnownPhasesGrouped ==
  TasksByPhaseCall =>
    /\ GroupsFollowTemplate
    /\ \A i \in 1..Len(fnCall.input.items) :
         PlacesOf(i) =
           (IF \E p \in 1..Len(fnCall.template.phases) :
                 fnCall.template.phases[p].id = fnCall.input.items[i].phaseId
            THEN 1 ELSE 0)

\* C23 witness: the checklist is grouped by a template that has none of the
\* phases of its items; the groups of the template come back empty
C23_Witness ==
  /\ TasksByPhaseCall
  /\ Len(fnOut.groups) >= 1
  /\ Len(fnCall.input.items) = 2
  /\ \A i \in 1..Len(fnCall.input.items) : PlacesOf(i) = 0

\* C24: formatDueDateWithStatus(dueDate) with diff = dueDate - today in
\* whole days gives overdue for diff < 0, today for diff = 0, upcoming for
\* 1 <= diff <= 7 and future for diff > 7; the overdue and upcoming labels
\* state |diff| with "day" for 1 and "days" otherwise.
C24_DueDateStatus ==
  fnCall.op = "formatDue" =>
    LET diff == DayOf(fnOut.dueDate) - fnCall.today
        abs  == IF diff < 0 THEN -diff ELSE diff
        unit == IF abs = 1 THEN "day" ELSE "days"
        v    == fnOut.value
    IN  /\ fnCall.ok
        /\ v.status = (IF diff < 0 THEN "overdue"
                       ELSE IF diff = 0 THEN "today"
                       ELSE IF diff <= 7 THEN "upcoming" ELSE "future")
        /\ diff < 0 => v.text = <<abs, unit, "overdue">>
        /\ (1 <= diff /\ diff <= 7) => v.text = <<"Due in", abs, unit>>

\* C24 witness: a due date exactly seven days ahead is labelled upcoming
C24_Witness ==
  /\ fnCall.op = "formatDue"
  /\ DayOf(fnOut.dueDate) - fnCall.today = 7
  /\ fnOut.value.status = "upcoming"
  /\ fnOut.value.text = <<"Due in", 7, "days">>

\* the ids of the items of a list
IdsOf(items) == {items[k].id : k \in 1..Len(items)}

\* the ids of the items named by the reminders of a type
RemindedIds(list, type) ==
  {list[k].checklistItemId : k \in {n \in 1..Len(list) : list[n].type = type}}

\* C28: for one checklist and one today, the overdueCount of
\* updateChecklistCounts, the number of items getOverdueTasks returns and
\* the number of task_overdue reminders of generateReminders are equal, and
\* the overdue tasks and the overdue reminders concern the same items.
C28_OverdueViewsAgree ==
  ViewsCall =>
    LET late == SelectSeq(fnOut.reminders, LAMBDA r : r.type = "task_overdue")
    IN  /\ fnOut.counted.overdueCount = Len(fnOut.overdue)
        /\ Len(late) = Len(fnOut.overdue)
        /\ RemindedIds(fnOut.reminders, "task_overdue") = IdsOf(fnOut.overdue)
        /\ Cardinality(IdsOf(fnOut.overdue)) = Len(fnOut.overdue)

\* C28 witness: one item is overdue in all three views while a completed or
\* skipped item past its due date is in none
C28_Witness ==
  /\ ViewsCall
  /\ fnOut.counted.overdueCount = 1
  /\ Len(fnOut.overdue) = 1
  /\ \E i \in 1..Len(fnCall.input.items) :
       /\ i \notin OpenItems(fnCall.input)
       /\ DayOf(fnCall.input.items[i].dueDate) < fnCall.today

\* every reminder offset of a template is non-negative
NonNegativeOffsets(template) ==
  \A i \in 1..Len(FlatTasks(template)) :
    \A j \in 1..Len(FlatTasks(template)[i].task.reminderOffsets) :
      FlatTasks(template)[i].task.reminderOffsets[j] >= 0

\* C29: for a checklist generated (and possibly recalculated) from templates
\* whose reminder offsets are all non-negative, one call of generateReminders
\* gives no item both a task_overdue and a task_due reminder, and for one
\* today no item is returned by both getOverdueTasks and getUpcomingTasks.
C29_OverdueAndUpcomingDisjoint ==
  (ViewsCall /\ \A t \in Templates : NonNegativeOffsets(t)) =>
    /\ RemindedIds(fnOut.reminders, "task_overdue")
          \cap RemindedIds(fnOut.reminders, "task_due") = {}
    /\ IdsOf(fnOut.overdue) \cap IdsOf(fnOut.upcoming) = {}

\* C29 witness: on one day an item due today gets its task_due reminder and
\* is upcoming while another item is overdue in both views
C29_Witness ==
  /\ ViewsCall
  /\ \E k \in 1..Len(fnOut.upcoming) :
       /\ DayOf(fnOut.upcoming[k].dueDate) = fnCall.today
       /\ fnOut.upcoming[k].id \in RemindedIds(fnOut.reminders, "task_due")
  /\ RemindedIds(fnOut.reminders, "task_overdue") # {}
  /\ IdsOf(fnOut.overdue) # {}

\* C30: recalculating the result of a recalculation with the same activity
\* and template changes no dueDate and no reminderDates, and recalculating a
\* freshly generated checklist with the activity and template it was
\* generated from leaves every dueDate and reminderDates as generated.
C30_RecalculateIdempotent ==
  Recalculated =>
    /\ DatesOf(fnCall.again) = DatesOf(fnChecklist)
    /\ (/\ fnGen.recalcs = 1
        /\ fnCall.template = fnGen.template
        /\ fnCall.activity.startDate = fnGen.startDate)
         => DatesOf(fnChecklist) = DatesOf(fnCall.input)

\* C30 witness: the two-item trade show checklist is recalculated for the
\* first time, with the start date and template it was generated from
C30_Witness ==
  /\ Recalculated
  /\ fnGen.recalcs = 1
  /\ fnCall.template = TplShow
  /\ fnGen.template = TplShow
  /\ fnCall.activity.startDate = fnGen.startDate
  /\ Len(fnChecklist.items) = 2
  /\ Len(fnCall.again.items) = 2

\* the stored activity a checklist belongs to, as a list of at most one
ActivityOf(checklist) == FindById(activities, checklist.activityId)

\* C2: whenever an activity's start date is edited through updateActivity,
\* the items of its checklist stand at the new start date + offset: no stored
\* checklist item keeps a due date computed from another start date.
C2_ChecklistFollowsStartDate ==
  \A c \in 1..Len(checklistInstances) :
    LET checklist == checklistInstances[c]
        owner     == ActivityOf(checklist)
        tpl       == FindTemplate(checklist.procedureTemplateId)
    IN  (owner # <<>> /\ tpl # <<>> /\ parseISO(owner[1].startDate).valid) =>
          \A i \in 1..Len(checklist.items) :
            LET item == checklist.items[i]
                flat == FlatTasks(tpl[1])
            IN  TaskMapHas(flat, item.taskId) =>
                  DayOf(item.dueDate) =
                    DayOf(owner[1].startDate) + TaskMapGet(flat, item.taskId).dueOffset

\* the cached counts agree with the items on the given day
CountsAccurate(checklist, day) ==
  /\ checklist.completedCount = Cardinality(CompletedItems(checklist))
  /\ checklist.overdueCount = Cardinality(OverdueItems(checklist, day))

CountsOf(checklist) ==
  <<checklist.completedCount, checklist.totalCount, checklist.overdueCount>>

C16_RemindersReplacedWholesale ==
  [][ (activities' # activities \/ checklistInstances' # checklistInstances) =>
        /\ reminders' =
             RegenerateReminders(activities', checklistInstances', today')
        /\ \A k \in 1..Len(reminders') :
             ~reminders'[k].isRead /\ ~reminders'[k].isDismissed
    ]_vars

\* C16 witness: a reminder the user dismissed or marked read is stored again
\* under the same id, unread and undismissed
C16_Witness ==
  \E k \in 1..Len(reminders) :
    /\ reminders[k].id \in handled
    /\ ~reminders[k].isRead
    /\ ~reminders[k].isDismissed

ChecklistsOf(lists, activityId) ==
  {c \in 1..Len(lists) : lists[c].activityId = activityId}

\* C25: an activity of a kind that gets checklists, stored without a start
\* date and without a checklist, has a checklist in the store right after
\* updateActivity (the only operation that edits a stored activity) sets a
\* start date on it.
C25_ChecklistGeneratedOnStartDate ==
  [][ \A i \in 1..Len(activities) :
        (/\ Len(activities') = Len(activities)
         /\ activities'[i].id = activities[i].id
         /\ activities[i].startDate = EmptyDate
         /\ activities'[i].startDate # EmptyDate
         /\ getActivityCategory(activities[i].activityType)
              \in {"trade", "educational"}
         /\ SelectTemplate(activities[i].activityType,
                           activities[i].procedureTemplateId) # <<>>
         /\ ChecklistsOf(checklistInstances, activities[i].id) = {})
        => ChecklistsOf(checklistInstances', activities[i].id) # {}
    ]_vars

\* C26: every stored checklist belongs to a stored activity.
C26_NoOrphanedChecklist ==
  \A c \in 1..Len(checklistInstances) :
    ActivityOf(checklistInstances[c]) # <<>>

\* C27: a stored checklist item that has completedAt set has the status
\* completed.
C27_CompletedAtOnlyOnCompleted ==
  \A c \in 1..Len(checklistInstances) :
    \A k \in 1..Len(checklistInstances[c].items) :
      "completedAt" \in DOMAIN checklistInstances[c].items[k]
        => checklistInstances[c].items[k].status = "completed"

====
